---------------------------- MODULE Spec2Model ----------------------------
(***************************************************************************)
(* Model of two leaf utilities of the repository:                          *)
(*   - CVersionInfo (Src/Common/version.cpp): the reader of a file's       *)
(*     version resource.  One behaviour is one construction of a record,   *)
(*     stepping through GetVersionInfo() call by call; the outcome of each *)
(*     operating-system call is an input chosen when the call is made.     *)
(*   - Poco::Environment (Externals/poco/Foundation/src/Environment.cpp):  *)
(*     get / has / set over the process environment.                       *)
(* Text is modelled as a sequence of one-character strings, so formatting  *)
(* (%d, %04x, %4.4X), key lookup and trimming are computed, not assumed.   *)
(***************************************************************************)
EXTENDS Integers, Sequences, FiniteSets, TLC

VARIABLES
    pc,               \* position of the constructor / GetVersionInfo()
    ctor,             \* the constructor called, with its string arguments
    m_wLanguage,      \* WORD, language ID asked for (0: none)
    m_bVersionOnly,   \* BOOL
    m_bDllVersion,    \* BOOL
    m_bVersionFound,  \* BOOL, not initialised by any constructor
    m_strFileName,    \* String
    m_strLanguage,    \* String
    m_strCodepage,    \* String
    m_FixedFileInfo,  \* VS_FIXEDFILEINFO (the four version DWORDs)
    m_dvi,            \* DLLVERSIONINFO
    m_pVffInfo,       \* the owned buffer: NullBuffer, UninitBuffer or a block
    m_strings,        \* the eleven string members, by field name
    dwVerInfoSize,    \* local of GetVersionInfo()
    hinstDll,         \* local of GetVersionInfo(): is a module loaded now
    calls,            \* the operating-system calls issued so far, in order
    nLoaded,          \* successful LoadLibrary calls so far
    nFreed,           \* FreeLibrary calls so far
    env,              \* the process environment: name -> value or Absent
    written,          \* per name, the value of the most recent set (or Never)
    envRet            \* the last Environment call and what it returned

versionVars == <<pc, ctor, m_wLanguage, m_bVersionOnly, m_bDllVersion,
                 m_bVersionFound, m_strFileName, m_strLanguage, m_strCodepage,
                 m_FixedFileInfo, m_dvi, m_pVffInfo, m_strings, dwVerInfoSize,
                 hinstDll, calls, nLoaded, nFreed>>
envVars == <<env, written, envRet>>
vars == <<versionVars, envVars>>

-----------------------------------------------------------------------------
(* Bounds of the model *)

\* longest translation table of a version resource
MaxTrans == 2
\* most string tables in a version resource
MaxTables == 1
\* number of environment variable names
MaxNames == 2
\* number of environment variable values
MaxValues == 2

-----------------------------------------------------------------------------
(* Words, double words and their text forms *)

\* A DWORD is held as its two WORDs, <<high, low>>: the code only copies
\* version DWORDs and splits them, and the whole value does not fit the
\* integers of the model checker.
HIWORD(dw) == dw[1] % 65536
LOWORD(dw) == dw[2] % 65536
MakeDword(hi, lo) == <<hi, lo>>
ZeroDword == MakeDword(0, 0)

DecDigits == <<"0", "1", "2", "3", "4", "5", "6", "7", "8", "9">>
HexLower == DecDigits \o <<"a", "b", "c", "d", "e", "f">>
HexUpper == DecDigits \o <<"A", "B", "C", "D", "E", "F">>

\* printf "%d" of a non-negative int
RECURSIVE FormatDec(_)
FormatDec(n) ==
    IF n < 10 THEN <<DecDigits[n + 1]>>
    ELSE FormatDec(n \div 10) \o <<DecDigits[(n % 10) + 1]>>

\* printf "%04x" / "%4.4X" of a WORD, with the given digit alphabet
FormatHex4(w, digits) ==
    << digits[((w \div 4096) % 16) + 1], digits[((w \div 256) % 16) + 1],
       digits[((w \div 16) % 16) + 1], digits[(w % 16) + 1] >>

-----------------------------------------------------------------------------
(* The version resource of the target file, as the operating system serves it *)

Fields == <<"CompanyName", "FileDescription", "FileVersion", "InternalName",
            "LegalCopyright", "OriginalFilename", "ProductName",
            "ProductVersion", "Comments", "SpecialBuild", "PrivateBuild">>
FieldNames == {Fields[i] : i \in DOMAIN Fields}
FieldIndex(f) == CHOOSE i \in DOMAIN Fields : Fields[i] = f

Whitespace == {" ", "\t", "\n", "\r"}

\* language IDs 0x0409, 0x0407 and codepages 0x04B0, 0x04E4
Langs == {1033, 1031}
Codepages == {1200, 1252}
LangCodepages == Langs \X Codepages

FixedInfo(fms, fls, pms, pls) ==
    [dwFileVersionMS |-> fms, dwFileVersionLS |-> fls,
     dwProductVersionMS |-> pms, dwProductVersionLS |-> pls]
ZeroFixedInfo == FixedInfo(ZeroDword, ZeroDword, ZeroDword, ZeroDword)
\* file 1.2.3.0 with product 1.2.3.4; file 10.0.65535.0 with product 0.9.100.65535
FixedInfos == { FixedInfo(MakeDword(1, 2), MakeDword(3, 0),
                          MakeDword(1, 2), MakeDword(3, 4)),
                FixedInfo(MakeDword(10, 0), MakeDword(65535, 0),
                          MakeDword(0, 9), MakeDword(100, 65535)) }
NoFixed == [absent |-> TRUE]

\* translation tables: no pair listed twice
TransTables ==
    UNION { { t \in [1..n -> LangCodepages] :
                \A i, j \in 1..n : t[i] = t[j] => i = j } : n \in 0..MaxTrans }
TableSets == { S \in SUBSET LangCodepages : Cardinality(S) <= MaxTables }

\* A loaded version-information block: the fixed record (or none), the
\* translation table (empty: no \VarFileInfo\Translation value), the
\* (language, codepage) pairs that have a string table, and whether the
\* resource compiler wrote the tables' keys in upper-case hex.
Blocks == [fixed : FixedInfos \cup {NoFixed}, trans : TransTables,
           tables : TableSets, upperKeys : BOOLEAN]

NullBuffer == [buffer |-> "null"]
UninitBuffer == [buffer |-> "uninitialised"]
IsBlock(b) == b # NullBuffer /\ b # UninitBuffer

\* The key a string table is stored under
StoredKey(block, p) ==
    LET digits == IF block.upperKeys THEN HexUpper ELSE HexLower
    IN  FormatHex4(p[1], digits) \o FormatHex4(p[2], digits)

\* What field f of the string table of pair p holds: by position of the field,
\* absent, plain, padded with white space (and holding an inner blank),
\* white space only, or the empty string.
FieldKind(p, f) == (FieldIndex(f) + (IF p[2] = 1200 THEN 0 ELSE 2)) % 5
HasField(p, f) == FieldKind(p, f) # 0
RawValue(p, f) ==
    LET text == <<f, " ">> \o FormatHex4(p[1], HexUpper)
    IN  CASE FieldKind(p, f) = 1 -> text
          [] FieldKind(p, f) = 2 -> <<" ", "\t">> \o text \o <<"\r", "\n", " ">>
          [] FieldKind(p, f) = 3 -> <<" ", "\t">>
          [] OTHER -> << >>

ToUpperChar(c) ==
    IF \E i \in 11..16 : HexLower[i] = c
    THEN HexUpper[CHOOSE i \in 11..16 : HexLower[i] = c]
    ELSE c
ToUpper(s) == [i \in DOMAIN s |-> ToUpperChar(s[i])]

\* VerQueryValue(block, "\\"): the fixed record, when the block has one
VerQueryFixed(block) ==
    [ok |-> block.fixed # NoFixed, ffi |-> block.fixed]

\* VerQueryValue(block, "\\VarFileInfo\\Translation")
VerQueryTranslation(block) ==
    [ok |-> Len(block.trans) >= 1, table |-> block.trans]

\* VerQueryValue(block, "\\StringFileInfo\\<lang><codepage>\\<id>"): block
\* names are matched without regard to case.
VerQueryString(block, lang, codepage, id) ==
    LET hits == { p \in block.tables :
                    ToUpper(StoredKey(block, p)) = ToUpper(lang \o codepage) }
    IN  IF hits # {} /\ HasField(CHOOSE p \in hits : TRUE, id)
        THEN [ok |-> TRUE, text |-> RawValue(CHOOSE p \in hits : TRUE, id)]
        ELSE [ok |-> FALSE, text |-> << >>]

-----------------------------------------------------------------------------
(* Pure functions of version.cpp *)

MakeVersionStringFourParts(hi, lo) ==
    FormatDec(HIWORD(hi)) \o <<".">> \o FormatDec(LOWORD(hi)) \o <<".">>
        \o FormatDec(HIWORD(lo)) \o <<".">> \o FormatDec(LOWORD(lo))

MakeVersionString(hi, lo) ==
    IF LOWORD(lo) = 0
    THEN FormatDec(HIWORD(hi)) \o <<".">> \o FormatDec(LOWORD(hi)) \o <<".">>
             \o FormatDec(HIWORD(lo))
    ELSE FormatDec(HIWORD(hi)) \o <<".">> \o FormatDec(LOWORD(hi)) \o <<".">>
             \o FormatDec(HIWORD(lo)) \o <<".">> \o FormatDec(LOWORD(lo))

RECURSIVE TrimLeft(_)
TrimLeft(s) ==
    IF s # << >> /\ Head(s) \in Whitespace THEN TrimLeft(Tail(s)) ELSE s
RECURSIVE TrimRight(_)
TrimRight(s) ==
    IF s # << >> /\ s[Len(s)] \in Whitespace
    THEN TrimRight(SubSeq(s, 1, Len(s) - 1))
    ELSE s
\* strutils::trim_ws
trim_ws(s) == TrimRight(TrimLeft(s))

QueryValueUntrimmed(block, lang, codepage, szId) ==
    LET r == VerQueryString(block, lang, codepage, szId)
    IN  IF r.ok THEN r.text ELSE << >>

\* CVersionInfo::QueryValue: the value stored in the member
QueryValue(block, lang, codepage, szId) ==
    LET r == VerQueryString(block, lang, codepage, szId)
    IN  IF r.ok
        THEN IF r.text # << >> THEN trim_ws(r.text) ELSE r.text
        ELSE << >>

\* Index of the first entry of the table whose language is wLanguage, or 0
FirstMatch(table, wLanguage) ==
    IF \E i \in DOMAIN table : table[i][1] = wLanguage
    THEN CHOOSE i \in DOMAIN table :
             /\ table[i][1] = wLanguage
             /\ \A j \in 1..(i - 1) : table[j][1] # wLanguage
    ELSE 0

\* CVersionInfo::GetCodepageForLanguage.  uninit is what the caller's
\* uninitialised out-parameter holds; wild is what reading through the
\* uninitialised lpTranslate / cbTranslate does when the query fails.
GetCodepageForLanguage(block, wLanguage, uninit, wild) ==
    LET q == VerQueryTranslation(block)
        i == FirstMatch(q.table, wLanguage)
    IN  IF q.ok
        THEN IF i # 0
             THEN [crash |-> FALSE, bFound |-> TRUE, wCodePage |-> q.table[i][2]]
             ELSE [crash |-> FALSE, bFound |-> FALSE, wCodePage |-> uninit]
        ELSE [crash |-> wild = "crash", bFound |-> wild = "match",
              wCodePage |-> uninit]

DviFromFixedLowWords(dvi, ffi) ==
    [dvi EXCEPT !.dwMajorVersion = LOWORD(ffi.dwFileVersionMS),
                !.dwMinorVersion = HIWORD(ffi.dwFileVersionMS),
                !.dwBuildNumber = LOWORD(ffi.dwFileVersionLS)]

\* m_dvi as GetFixedVersionInfo() leaves it
DviFromFixed(dvi, ffi) ==
    [dvi EXCEPT !.dwMajorVersion = HIWORD(ffi.dwFileVersionMS),
                !.dwMinorVersion = LOWORD(ffi.dwFileVersionMS),
                !.dwBuildNumber = HIWORD(ffi.dwFileVersionLS)]

-----------------------------------------------------------------------------
(* Construction of a CVersionInfo *)

SizeofDvi == 20
ZeroDvi == [cbSize |-> 0, dwMajorVersion |-> 0, dwMinorVersion |-> 0,
            dwBuildNumber |-> 0, dwPlatformID |-> 0]
\* what an exported DllGetVersion reports
DllReports == { [dwMajorVersion |-> 6, dwMinorVersion |-> 0,
                 dwBuildNumber |-> 2900, dwPlatformID |-> 1] }

Null == [isNull |-> TRUE]
Text(t) == [isNull |-> FALSE, text |-> t]
FileArgs == {Null, Text("target.dll")}
LanguageArgs == {Null, Text(<<"0", "4", "0", "9">>)}
CodepageArgs == {Null, Text(<<"0", "4", "b", "0">>)}
LanguageIds == {0, 1033}
\* what GetFileVersionInfoSize may report: no version resource, or its size
VerInfoSizes == {0, 1832}
\* values an uninitialised WORD may hold
UninitWords == Codepages \cup {52428}
WildReads == {"crash", "nomatch", "match"}

EmptyStrings == [f \in FieldNames |-> << >>]

\* The storage of the object before a constructor runs: the String and
\* unique_ptr members are default-constructed; m_bVersionFound holds whatever
\* the storage held.
InitVersion ==
    /\ pc = "new"
    /\ ctor = [name |-> "none"]
    /\ m_wLanguage = 0
    /\ m_bVersionOnly = FALSE
    /\ m_bDllVersion = FALSE
    /\ m_bVersionFound \in BOOLEAN
    /\ m_strFileName = ""
    /\ m_strLanguage = << >>
    /\ m_strCodepage = << >>
    /\ m_FixedFileInfo = ZeroFixedInfo
    /\ m_dvi = ZeroDvi
    /\ m_pVffInfo = NullBuffer
    /\ m_strings = EmptyStrings
    /\ dwVerInfoSize = 0
    /\ hinstDll = FALSE
    /\ calls = << >>
    /\ nLoaded = 0
    /\ nFreed = 0

Construct(name, wLanguage, bVersionOnly, bDllVersion, file, lang, codepage, moreCalls) ==
    /\ pc = "new"
    /\ ctor' = [name |-> name, lang |-> lang, codepage |-> codepage]
    /\ m_wLanguage' = wLanguage
    /\ m_bVersionOnly' = bVersionOnly
    /\ m_bDllVersion' = bDllVersion
    /\ m_strFileName' = IF file.isNull THEN m_strFileName ELSE file.text
    /\ m_strLanguage' = IF lang.isNull THEN m_strLanguage ELSE lang.text
    /\ m_strCodepage' = IF codepage.isNull THEN m_strCodepage ELSE codepage.text
    /\ calls' = calls \o moreCalls
    /\ pc' = "GetVersionInfo"
    /\ UNCHANGED <<m_bVersionFound, m_FixedFileInfo, m_dvi, m_pVffInfo,
                   m_strings, dwVerInfoSize, hinstDll, nLoaded, nFreed>>

\* CVersionInfo(BOOL bVersionOnly)
CtorVersionOnly ==
    \E bVersionOnly \in BOOLEAN :
        Construct("VersionOnly", 0, bVersionOnly, FALSE, Null, Null, Null, << >>)

\* CVersionInfo(WORD wLanguage)
CtorLanguage ==
    \E wLanguage \in LanguageIds :
        Construct("Language", wLanguage, FALSE, FALSE, Null, Null, Null, << >>)

\* CVersionInfo(LPCTSTR szFileToVersion, BOOL bDllVersion)
CtorFileDll ==
    \E file \in FileArgs, bDllVersion \in BOOLEAN :
        Construct("FileDll", 0, FALSE, bDllVersion, file, Null, Null, << >>)

\* CVersionInfo(LPCTSTR szFileToVersion, LPCTSTR szLanguage, LPCTSTR szCodepage)
CtorFileLanguageCodepage ==
    \E file \in FileArgs, lang \in LanguageArgs, codepage \in CodepageArgs :
        Construct("FileLanguageCodepage", 0, FALSE, FALSE, file, lang, codepage, << >>)

\* CVersionInfo(HINSTANCE hModule)
CtorModule ==
    Construct("Module", 0, FALSE, FALSE, Text("module.dll"), Null, Null,
              <<"GetModuleFileName">>)

\* Where GetVersionInfo() goes after the size query
PcAfterSizeAlwaysLoad(size) == "load"
PcAfterSize(size) == IF size # 0 THEN "load" ELSE "dll"

\* GetVersionInfo(), up to and including the size query
LocateResource ==
    /\ pc = "GetVersionInfo"
    /\ \E size \in VerInfoSizes :
        /\ dwVerInfoSize' = size
        /\ m_bVersionFound' = IF size # 0 THEN TRUE ELSE m_bVersionFound
        /\ m_pVffInfo' = IF size # 0 THEN UninitBuffer ELSE m_pVffInfo
        /\ pc' = PcAfterSize(size)
    /\ m_FixedFileInfo' = ZeroFixedInfo
    /\ m_dvi' = ZeroDvi
    /\ calls' = calls \o (IF m_strFileName = "" THEN <<"GetModuleFileName">> ELSE << >>)
                      \o <<"GetFileVersionInfoSize">>
    /\ UNCHANGED <<ctor, m_wLanguage, m_bVersionOnly, m_bDllVersion,
                   m_strFileName, m_strLanguage, m_strCodepage, m_strings,
                   hinstDll, nLoaded, nFreed>>

\* GetFileVersionInfo() into the new buffer
LoadResource ==
    /\ pc = "load"
    /\ calls' = Append(calls, "GetFileVersionInfo")
    /\ \/ \E block \in Blocks :
            /\ m_pVffInfo' = block
            /\ pc' = "fixed"
       \/ /\ m_pVffInfo' = m_pVffInfo
          /\ pc' = "dll"
    /\ UNCHANGED <<ctor, m_wLanguage, m_bVersionOnly, m_bDllVersion,
                   m_bVersionFound, m_strFileName, m_strLanguage, m_strCodepage,
                   m_FixedFileInfo, m_dvi, m_strings, dwVerInfoSize, hinstDll,
                   nLoaded, nFreed>>

\* if (m_bVersionOnly == FALSE) QueryStrings();
QueriesStringsAlways == TRUE
QueriesStrings == m_bVersionOnly = FALSE

\* CVersionInfo::GetFixedVersionInfo
GetFixedVersionInfo ==
    /\ pc = "fixed"
    /\ LET q == VerQueryFixed(m_pVffInfo)
           ffi == IF q.ok THEN q.ffi ELSE ZeroFixedInfo
       IN  /\ m_FixedFileInfo' = ffi
           /\ m_dvi' = DviFromFixed(m_dvi, ffi)
    /\ calls' = Append(calls, "VerQueryValue \\")
    /\ pc' = IF QueriesStrings THEN "strings" ELSE "dll"
    /\ UNCHANGED <<ctor, m_wLanguage, m_bVersionOnly, m_bDllVersion,
                   m_bVersionFound, m_strFileName, m_strLanguage, m_strCodepage,
                   m_pVffInfo, m_strings, dwVerInfoSize, hinstDll, nLoaded,
                   nFreed>>

StringQueries == [i \in DOMAIN Fields |-> "VerQueryValue \\StringFileInfo"]

\* CVersionInfo::QueryStrings, a language ID given (m_wLanguage != 0)
QueryStringsForLanguage ==
    /\ pc = "strings"
    /\ m_wLanguage # 0
    /\ \E uninit \in UninitWords, wild \in WildReads :
         LET r == GetCodepageForLanguage(m_pVffInfo, m_wLanguage, uninit, wild)
             lang == FormatHex4(m_wLanguage, HexLower)
             codepage == FormatHex4(r.wCodePage, HexLower)
         IN  IF r.crash
             THEN /\ pc' = "crashed"
                  /\ UNCHANGED <<m_strLanguage, m_strCodepage, m_strings>>
                  /\ calls' = Append(calls, "VerQueryValue \\VarFileInfo\\Translation")
             ELSE /\ pc' = "dll"
                  /\ m_strLanguage' = lang
                  /\ m_strCodepage' = codepage
                  /\ m_strings' = [f \in FieldNames |->
                                     QueryValue(m_pVffInfo, lang, codepage, f)]
                  /\ calls' = Append(calls, "VerQueryValue \\VarFileInfo\\Translation")
                                  \o StringQueries
    /\ UNCHANGED <<ctor, m_wLanguage, m_bVersionOnly, m_bDllVersion,
                   m_bVersionFound, m_strFileName, m_FixedFileInfo, m_dvi,
                   m_pVffInfo, dwVerInfoSize, hinstDll, nLoaded, nFreed>>

\* CVersionInfo::QueryStrings, no language ID: the language and codepage
\* strings given, or else the first entry of the translation table
QueryStringsDefault ==
    /\ pc = "strings"
    /\ m_wLanguage = 0
    /\ LET detect == m_strLanguage = << >> \/ m_strCodepage = << >>
           q == VerQueryTranslation(m_pVffInfo)
           take == detect /\ q.ok
           lang == IF take THEN FormatHex4(q.table[1][1], HexUpper)
                   ELSE m_strLanguage
           codepage == IF take THEN FormatHex4(q.table[1][2], HexUpper)
                       ELSE m_strCodepage
       IN  /\ m_strLanguage' = lang
           /\ m_strCodepage' = codepage
           /\ m_strings' = [f \in FieldNames |->
                              QueryValue(m_pVffInfo, lang, codepage, f)]
           /\ calls' = calls
                  \o (IF detect THEN <<"VerQueryValue \\VarFileInfo\\Translation">>
                      ELSE << >>)
                  \o StringQueries
    /\ pc' = "dll"
    /\ UNCHANGED <<ctor, m_wLanguage, m_bVersionOnly, m_bDllVersion,
                   m_bVersionFound, m_strFileName, m_FixedFileInfo, m_dvi,
                   m_pVffInfo, dwVerInfoSize, hinstDll, nLoaded, nFreed>>

\* if (m_bDllVersion) { if (hinstDll = LoadLibrary(szFileName)) ...
DllLoad ==
    /\ pc = "dll"
    /\ IF m_bDllVersion
       THEN /\ calls' = Append(calls, "LoadLibrary")
            /\ \E loaded \in BOOLEAN :
                 /\ hinstDll' = loaded
                 /\ nLoaded' = IF loaded THEN nLoaded + 1 ELSE nLoaded
                 /\ pc' = IF loaded THEN "proc" ELSE "done"
       ELSE /\ pc' = "done"
            /\ UNCHANGED <<calls, hinstDll, nLoaded>>
    /\ UNCHANGED <<ctor, m_wLanguage, m_bVersionOnly, m_bDllVersion,
                   m_bVersionFound, m_strFileName, m_strLanguage, m_strCodepage,
                   m_FixedFileInfo, m_dvi, m_pVffInfo, m_strings, dwVerInfoSize,
                   nFreed>>

\* Where GetVersionInfo() goes after GetProcAddress and the call it guards
PcAfterProcLeak(found) == IF found THEN "free" ELSE "done"
PcAfterProc(found) == "free"

\* GetProcAddress(hinstDll, "DllGetVersion") and the call of what it found
DllQuery ==
    /\ pc = "proc"
    /\ \/ /\ m_dvi' = m_dvi
          /\ calls' = Append(calls, "GetProcAddress")
          /\ pc' = PcAfterProc(FALSE)
       \/ \E report \in DllReports :
            /\ m_dvi' = [cbSize |-> SizeofDvi,
                         dwMajorVersion |-> report.dwMajorVersion,
                         dwMinorVersion |-> report.dwMinorVersion,
                         dwBuildNumber |-> report.dwBuildNumber,
                         dwPlatformID |-> report.dwPlatformID]
            /\ calls' = calls \o <<"GetProcAddress", "DllGetVersion">>
            /\ pc' = PcAfterProc(TRUE)
       \/ \E report \in DllReports, wrote \in BOOLEAN :
            /\ m_dvi' = IF wrote
                        THEN [cbSize |-> 0,
                              dwMajorVersion |-> report.dwMajorVersion,
                              dwMinorVersion |-> report.dwMinorVersion,
                              dwBuildNumber |-> report.dwBuildNumber,
                              dwPlatformID |-> report.dwPlatformID]
                        ELSE [m_dvi EXCEPT !.cbSize = 0]
            /\ calls' = calls \o <<"GetProcAddress", "DllGetVersion">>
            /\ pc' = PcAfterProc(TRUE)
    /\ UNCHANGED <<ctor, m_wLanguage, m_bVersionOnly, m_bDllVersion,
                   m_bVersionFound, m_strFileName, m_strLanguage, m_strCodepage,
                   m_FixedFileInfo, m_pVffInfo, m_strings, dwVerInfoSize,
                   hinstDll, nLoaded, nFreed>>

\* FreeLibrary(hinstDll)
DllFree ==
    /\ pc = "free"
    /\ hinstDll' = FALSE
    /\ nFreed' = nFreed + 1
    /\ calls' = Append(calls, "FreeLibrary")
    /\ pc' = "done"
    /\ UNCHANGED <<ctor, m_wLanguage, m_bVersionOnly, m_bDllVersion,
                   m_bVersionFound, m_strFileName, m_strLanguage, m_strCodepage,
                   m_FixedFileInfo, m_dvi, m_pVffInfo, m_strings, dwVerInfoSize,
                   nLoaded>>

-----------------------------------------------------------------------------
(* The accessors of a constructed CVersionInfo *)

GetCompanyName == m_strings["CompanyName"]
GetFileDescription == m_strings["FileDescription"]
GetFileVersion == m_strings["FileVersion"]
GetInternalName == m_strings["InternalName"]
GetLegalCopyright == m_strings["LegalCopyright"]
GetOriginalFilename == m_strings["OriginalFilename"]
GetProductName == m_strings["ProductName"]
GetProductVersion == m_strings["ProductVersion"]
GetComments == m_strings["Comments"]
GetSpecialBuild == m_strings["SpecialBuild"]
GetPrivateBuild == m_strings["PrivateBuild"]
StringGetters ==
    <<GetCompanyName, GetFileDescription, GetFileVersion, GetInternalName,
      GetLegalCopyright, GetOriginalFilename, GetProductName,
      GetProductVersion, GetComments, GetSpecialBuild, GetPrivateBuild>>

GetFixedProductVersion ==
    IF ~m_bVersionFound THEN << >>
    ELSE MakeVersionString(m_FixedFileInfo.dwProductVersionMS,
                           m_FixedFileInfo.dwProductVersionLS)

GetFixedFileVersion ==
    IF ~m_bVersionFound THEN << >>
    ELSE MakeVersionString(m_FixedFileInfo.dwFileVersionMS,
                           m_FixedFileInfo.dwFileVersionLS)

\* BOOL GetFixedFileVersion(unsigned& versionMS, unsigned& versionLS): the
\* result, and whether and with what the out-parameters were written
GetFixedFileVersionNumbers ==
    IF m_bVersionFound
    THEN [result |-> TRUE, written |-> TRUE,
          versionMS |-> m_FixedFileInfo.dwFileVersionMS,
          versionLS |-> m_FixedFileInfo.dwFileVersionLS]
    ELSE [result |-> FALSE, written |-> FALSE,
          versionMS |-> ZeroDword, versionLS |-> ZeroDword]

-----------------------------------------------------------------------------
(* Poco::Environment *)

Names == 1..MaxNames
Values == 1..MaxValues
Unset == [present |-> FALSE]
Var(v) == [present |-> TRUE, value |-> v]
Environments == [Names -> {Unset} \cup {Var(v) : v \in Values}]
Never == [set |-> FALSE]
Last(v) == [set |-> TRUE, value |-> v]

\* EnvironmentImpl, the platform backend
hasImpl(e, name) == e[name].present
getImpl(e, name) ==
    IF e[name].present THEN [threw |-> FALSE, value |-> e[name].value]
    ELSE [threw |-> TRUE]
setImpl(e, name, value) == [e EXCEPT ![name] = Var(value)]

\* Environment::has(name)
has(name) == hasImpl(env, name)
\* Environment::get(name)
get(name) == getImpl(env, name)
getWithDefaultUnguarded(name, defaultValue) == get(name)
\* Environment::get(name, defaultValue)
getWithDefault(name, defaultValue) ==
    IF has(name) THEN get(name)
    ELSE [threw |-> FALSE, value |-> defaultValue]

InitEnv ==
    /\ env = [n \in Names |-> Unset]
    /\ written = [n \in Names |-> Never]
    /\ envRet = [op |-> "none"]

EnvSet ==
    \E name \in Names, value \in Values :
        /\ env' = setImpl(env, name, value)
        /\ written' = [written EXCEPT ![name] = Last(value)]
        /\ envRet' = [op |-> "set", name |-> name]

EnvHas ==
    \E name \in Names :
        /\ envRet' = [op |-> "has", name |-> name, result |-> has(name)]
        /\ UNCHANGED <<env, written>>

EnvGet ==
    \E name \in Names :
        /\ envRet' = [op |-> "get", name |-> name, result |-> get(name)]
        /\ UNCHANGED <<env, written>>

EnvGetDefault ==
    \E name \in Names, defaultValue \in Values :
        /\ envRet' = [op |-> "getDefault", name |-> name,
                      defaultValue |-> defaultValue,
                      result |-> getWithDefault(name, defaultValue)]
        /\ UNCHANGED <<env, written>>

-----------------------------------------------------------------------------
(* Specifications *)

\* One construction of a CVersionInfo
Init == InitVersion /\ InitEnv

Next ==
    \/ CtorVersionOnly /\ UNCHANGED envVars
    \/ CtorLanguage /\ UNCHANGED envVars
    \/ CtorFileDll /\ UNCHANGED envVars
    \/ CtorFileLanguageCodepage /\ UNCHANGED envVars
    \/ CtorModule /\ UNCHANGED envVars
    \/ LocateResource /\ UNCHANGED envVars
    \/ LoadResource /\ UNCHANGED envVars
    \/ GetFixedVersionInfo /\ UNCHANGED envVars
    \/ QueryStringsForLanguage /\ UNCHANGED envVars
    \/ QueryStringsDefault /\ UNCHANGED envVars
    \/ DllLoad /\ UNCHANGED envVars
    \/ DllQuery /\ UNCHANGED envVars
    \/ DllFree /\ UNCHANGED envVars

Spec == Init /\ [][Next]_vars

\* Calls of Environment on a process environment that starts with any content
InitEnvAny ==
    /\ InitVersion
    /\ m_bVersionFound = FALSE
    /\ env \in Environments
    /\ written = [n \in Names |-> Never]
    /\ envRet = [op |-> "none"]

NextEnv ==
    \/ EnvSet /\ UNCHANGED versionVars
    \/ EnvHas /\ UNCHANGED versionVars
    \/ EnvGet /\ UNCHANGED versionVars
    \/ EnvGetDefault /\ UNCHANGED versionVars

SpecEnv == InitEnvAny /\ [][NextEnv]_vars

-----------------------------------------------------------------------------
(* What the claims are stated with *)

Done == pc = "done"
Called(name) == \E i \in DOMAIN calls : calls[i] = name
CountCalls(name) == Cardinality({ i \in DOMAIN calls : calls[i] = name })
SizeQueried == Called("GetFileVersionInfoSize")
AllStringsEmpty == \A i \in DOMAIN StringGetters : StringGetters[i] = << >>
ReportsAbsent ==
    /\ GetFixedFileVersionNumbers.result = FALSE
    /\ GetFixedFileVersion = << >>
    /\ GetFixedProductVersion = << >>
    /\ AllStringsEmpty

\* The number a hexadecimal text denotes, in either case of its letters
RECURSIVE HexValue(_)
HexValue(s) ==
    IF s = << >> THEN 0
    ELSE HexValue(SubSeq(s, 1, Len(s) - 1)) * 16
         + (CHOOSE d \in 0..15 : HexUpper[d + 1] = ToUpperChar(s[Len(s)]))

\* The number a decimal text denotes
RECURSIVE DecValue(_)
DecValue(s) ==
    IF s = << >> THEN 0
    ELSE DecValue(SubSeq(s, 1, Len(s) - 1)) * 10
         + (CHOOSE d \in 0..9 : DecDigits[d + 1] = s[Len(s)])

\* The numbers of a dotted version text, in order
RECURSIVE VersionParts(_)
VersionParts(s) ==
    IF \E i \in DOMAIN s : s[i] = "."
    THEN LET dot == CHOOSE i \in DOMAIN s :
                        s[i] = "." /\ \A j \in 1..(i - 1) : s[j] # "."
         IN  <<DecValue(SubSeq(s, 1, dot - 1))>>
                 \o VersionParts(SubSeq(s, dot + 1, Len(s)))
    ELSE <<DecValue(s)>>

\* Every part is written without sign, blank or leading zero
CanonicalVersionText(s) ==
    /\ s # << >>
    /\ \A i \in DOMAIN s :
         /\ s[i] = "." \/ \E d \in 1..10 : DecDigits[d] = s[i]
         /\ s[i] = "." => i # 1 /\ i # Len(s) /\ s[i + 1] # "."
         /\ (s[i] = "0" /\ (i = 1 \/ s[i - 1] = "."))
                => (i = Len(s) \/ s[i + 1] = ".")

ExpectedParts(hi, lo) ==
    IF lo[2] = 0 THEN <<hi[1], hi[2], lo[1]>> ELSE <<hi[1], hi[2], lo[1], lo[2]>>

RendersVersion(text, hi, lo) ==
    /\ CanonicalVersionText(text)
    /\ VersionParts(text) = ExpectedParts(hi, lo)

\* r is raw without its leading and trailing white space
IsTrimOf(r, raw) ==
    /\ r = << >> \/ (r[1] \notin Whitespace /\ r[Len(r)] \notin Whitespace)
    /\ \E a \in 0..Len(raw) :
         /\ a + Len(r) <= Len(raw)
         /\ \A i \in 1..a : raw[i] \in Whitespace
         /\ \A i \in 1..Len(r) : raw[a + i] = r[i]
         /\ \A i \in (a + Len(r) + 1)..Len(raw) : raw[i] \in Whitespace

\* What the resource stores for field f under the (language, codepage) pair p
StoredUnder(block, p, f) ==
    IF p \in block.tables /\ HasField(p, f)
    THEN [present |-> TRUE, raw |-> RawValue(p, f)]
    ELSE [present |-> FALSE, raw |-> << >>]

\* The fixed record a loaded block serves, zero-filled when it has none
FixedOf(buffer) ==
    IF IsBlock(buffer) /\ buffer.fixed # NoFixed THEN buffer.fixed
    ELSE ZeroFixedInfo

-----------------------------------------------------------------------------
(* The claims *)

\* C1: whichever constructor ran, when the size query returned zero the
\* constructed record reports not-found, both fixed version texts are empty
\* and every string getter returns the empty string.
C1_NoResourceReportsAbsent ==
    (Done /\ SizeQueried /\ dwVerInfoSize = 0) => ReportsAbsent

\* C2: when the size query returned non-zero but GetFileVersionInfo failed,
\* the constructed record reports not-found, both fixed version texts are
\* empty and every string getter returns the empty string.
C2_LoadFailureReportsAbsent ==
    (Done /\ dwVerInfoSize # 0 /\ m_pVffInfo = UninitBuffer) => ReportsAbsent

\* C3 as stated: with the DLL version asked for and DllGetVersion never
\* called (no such export, or the module did not load), m_dvi is all zero
\* after construction.
C3_DviAllZeroWithoutExport ==
    (Done /\ m_bDllVersion /\ ~Called("DllGetVersion"))
        => /\ m_dvi.cbSize = 0
           /\ m_dvi.dwMajorVersion = 0
           /\ m_dvi.dwMinorVersion = 0
           /\ m_dvi.dwBuildNumber = 0

\* C3 amended: with the DLL version asked for and DllGetVersion never called,
\* m_dvi.cbSize is 0 after construction, and major, minor and build are the
\* first three parts of the file version of the resource's fixed record
\* (zero when no resource was loaded or it has no fixed record).
C3_DviZeroSizedWithoutExport ==
    (Done /\ m_bDllVersion /\ ~Called("DllGetVersion"))
        => /\ m_dvi.cbSize = 0
           /\ m_dvi.dwPlatformID = 0
           /\ m_dvi.dwMajorVersion = FixedOf(m_pVffInfo).dwFileVersionMS[1]
           /\ m_dvi.dwMinorVersion = FixedOf(m_pVffInfo).dwFileVersionMS[2]
           /\ m_dvi.dwBuildNumber = FixedOf(m_pVffInfo).dwFileVersionLS[1]

C3_Witness ==
    /\ Done /\ m_bDllVersion
    /\ Called("GetProcAddress") /\ ~Called("DllGetVersion")
    /\ m_dvi.dwMajorVersion # 0

\* C4: a version-only construction never queries the translation table or a
\* string, so every string getter returns empty whatever the resource holds,
\* and once the resource is loaded and read the fixed fields are those of
\* its fixed record (zero when it has none).
C4_VersionOnlySkipsStrings ==
    (pc # "new" /\ m_bVersionOnly)
        => /\ ~Called("VerQueryValue \\VarFileInfo\\Translation")
           /\ ~Called("VerQueryValue \\StringFileInfo")
           /\ AllStringsEmpty
           /\ (IsBlock(m_pVffInfo) /\ pc # "fixed")
                  => m_FixedFileInfo = FixedOf(m_pVffInfo)

C4_Witness ==
    /\ Done /\ m_bVersionOnly /\ IsBlock(m_pVffInfo)
    /\ m_pVffInfo.tables # {} /\ m_pVffInfo.trans # << >>
    /\ \E p \in m_pVffInfo.tables : m_pVffInfo.trans[1] = p
    /\ m_FixedFileInfo # ZeroFixedInfo

C5_Case ==
    /\ Done /\ IsBlock(m_pVffInfo) /\ Len(m_pVffInfo.trans) = 1
    /\ m_wLanguage = 0 /\ ~m_bVersionOnly
    /\ ctor.lang = Null /\ ctor.codepage = Null

\* C5: on a loaded resource whose translation table has exactly one entry, a
\* construction with no language ID, no language or codepage string and not
\* version-only makes that entry the active pair, and each string member is
\* the value stored under that pair for its field without the surrounding
\* white space, or empty when nothing is stored.
C5_SingleTranslationSelected ==
    C5_Case =>
        LET p == m_pVffInfo.trans[1]
        IN  /\ Len(m_strLanguage) = 4 /\ HexValue(m_strLanguage) = p[1]
            /\ Len(m_strCodepage) = 4 /\ HexValue(m_strCodepage) = p[2]
            /\ \A f \in FieldNames :
                 LET stored == StoredUnder(m_pVffInfo, p, f)
                 IN  IF stored.present
                     THEN IsTrimOf(m_strings[f], stored.raw)
                     ELSE m_strings[f] = << >>

C5_Witness ==
    /\ C5_Case
    /\ ~m_pVffInfo.upperKeys
    /\ m_pVffInfo.trans[1] \in m_pVffInfo.tables
    /\ \E f \in FieldNames :
         /\ m_strings[f] # << >>
         /\ m_strings[f] # RawValue(m_pVffInfo.trans[1], f)
    /\ \E f \in FieldNames :
         /\ HasField(m_pVffInfo.trans[1], f)
         /\ RawValue(m_pVffInfo.trans[1], f) # << >>
         /\ m_strings[f] = << >>
    /\ \E f \in FieldNames : ~HasField(m_pVffInfo.trans[1], f)

\* words the formatting is tried on, besides those of the resources
SampleWords == {0, 1, 9, 10, 100, 65535}

\* C6: MakeVersionString renders the three parts HIWORD(hi), LOWORD(hi),
\* HIWORD(lo) in decimal exactly when LOWORD(lo) = 0 and otherwise those and
\* LOWORD(lo); 1.2.3.0 gives "1.2.3" and 1.2.3.4 gives "1.2.3.4"; and a found
\* record's GetFixedFileVersion() and GetFixedProductVersion() are this
\* rendering of the stored file and product version.  (The function itself
\* does not depend on the state: it is tried on the sample words once, in the
\* states before construction.)
C6_VersionStringFormat ==
    /\ pc = "new" =>
         /\ MakeVersionString(MakeDword(1, 2), MakeDword(3, 0))
                = <<"1", ".", "2", ".", "3">>
         /\ MakeVersionString(MakeDword(1, 2), MakeDword(3, 4))
                = <<"1", ".", "2", ".", "3", ".", "4">>
         /\ \A a, b, c, d \in SampleWords :
              RendersVersion(MakeVersionString(MakeDword(a, b), MakeDword(c, d)),
                             MakeDword(a, b), MakeDword(c, d))
    /\ (Done /\ m_bVersionFound) =>
         /\ RendersVersion(GetFixedFileVersion,
                           m_FixedFileInfo.dwFileVersionMS,
                           m_FixedFileInfo.dwFileVersionLS)
         /\ RendersVersion(GetFixedProductVersion,
                           m_FixedFileInfo.dwProductVersionMS,
                           m_FixedFileInfo.dwProductVersionLS)
         /\ IsBlock(m_pVffInfo) => m_FixedFileInfo = FixedOf(m_pVffInfo)

C6_Witness ==
    /\ Done /\ m_bVersionFound /\ IsBlock(m_pVffInfo)
    /\ m_FixedFileInfo.dwFileVersionLS[2] = 0
    /\ m_FixedFileInfo.dwProductVersionLS[2] # 0
    /\ Len(GetFixedFileVersion) = 5
    /\ Len(GetFixedProductVersion) = 7

\* C7: with the environment a map changed only by set: a name that was set
\* is present and get returns the value of its latest set; for a name not
\* present has is false and get(name, default) returns default without
\* failing; for a present name get(name, default) returns what get returns.
C7_EnvironmentMap ==
    /\ \A n \in Names : written[n].set => env[n] = Var(written[n].value)
    /\ envRet.op = "has" =>
         /\ envRet.result = env[envRet.name].present
         /\ written[envRet.name].set => envRet.result
    /\ envRet.op = "get" =>
         /\ written[envRet.name].set =>
              envRet.result = [threw |-> FALSE,
                               value |-> written[envRet.name].value]
         /\ envRet.result.threw = ~env[envRet.name].present
    /\ envRet.op = "getDefault" =>
         /\ ~envRet.result.threw
         /\ envRet.result.value =
              IF env[envRet.name].present THEN env[envRet.name].value
              ELSE envRet.defaultValue
         /\ env[envRet.name].present => envRet.result = get(envRet.name)

C7_Witness ==
    /\ envRet.op = "getDefault"
    /\ ~env[envRet.name].present
    /\ envRet.result.value = envRet.defaultValue
    /\ \E n \in Names : written[n].set /\ has(n)

\* C8: a module is loaded only when the DLL version was asked for, at most
\* one module is held at a time, and every module loaded has been unloaded
\* exactly once when construction returns, whether the export is missing,
\* the version call fails or it succeeds.
C8_ModuleAlwaysUnloaded ==
    /\ Called("LoadLibrary") => m_bDllVersion
    /\ nLoaded = 0 \/ Called("LoadLibrary")
    /\ nFreed = CountCalls("FreeLibrary")
    /\ nFreed <= nLoaded
    /\ hinstDll <=> nLoaded = nFreed + 1
    /\ Done => (nFreed = nLoaded /\ ~hinstDll)

C8_Witness ==
    /\ Done /\ nLoaded = 1 /\ nFreed = 1
    /\ Called("GetProcAddress") /\ ~Called("DllGetVersion")

\* C9 as stated: once the size query has returned zero, no resource load, no
\* fixed-info, translation or string query and no module load is ever made,
\* also when the DLL version was asked for.
C9_ZeroSizeSkipsEverything ==
    (SizeQueried /\ dwVerInfoSize = 0)
        => /\ ~Called("GetFileVersionInfo")
           /\ ~Called("VerQueryValue \\")
           /\ ~Called("VerQueryValue \\VarFileInfo\\Translation")
           /\ ~Called("VerQueryValue \\StringFileInfo")
           /\ ~Called("LoadLibrary")

\* C9 amended: once the size query has returned zero, no resource load and no
\* fixed-info, translation or string query is ever made; the optional
\* DLL-version step is not skipped: when construction returns, a module load
\* has been attempted exactly when the DLL version was asked for.
C9_ZeroSizeSkipsResourceSteps ==
    (SizeQueried /\ dwVerInfoSize = 0)
        => /\ ~Called("GetFileVersionInfo")
           /\ ~Called("VerQueryValue \\")
           /\ ~Called("VerQueryValue \\VarFileInfo\\Translation")
           /\ ~Called("VerQueryValue \\StringFileInfo")
           /\ m_pVffInfo = NullBuffer
           /\ pc \in {"dll", "proc", "free", "done"}
           /\ Done => (CountCalls("LoadLibrary") = IF m_bDllVersion THEN 1 ELSE 0)

C9_Witness ==
    /\ Done /\ SizeQueried /\ dwVerInfoSize = 0
    /\ m_bDllVersion /\ nLoaded = 1 /\ nFreed = 1

\* C10: with a non-zero language ID on a loaded resource, the codepage used
\* is that of the first translation entry, in table order, of that language;
\* when no entry has that language (or there is no readable table), every
\* string query misses and all string getters return empty.
C10_LanguageCodepageResolution ==
    (Done /\ m_wLanguage # 0 /\ IsBlock(m_pVffInfo)) =>
        LET t == m_pVffInfo.trans
            same == { i \in DOMAIN t : t[i][1] = m_wLanguage }
        IN  IF same # {}
            THEN LET first == CHOOSE i \in same : \A j \in same : i <= j
                 IN  /\ HexValue(m_strLanguage) = m_wLanguage
                     /\ HexValue(m_strCodepage) = t[first][2]
            ELSE AllStringsEmpty

====
